---- MODULE Spec2Model ----
(***************************************************************************)
(* Contribution pipeline of HowToContribute.vue: the robot and company     *)
(* forms, the local validators, the entry builders (generate /             *)
(* generateCompany), the PR helper generators and the GitHub submission    *)
(* chains (submitRobotToGitHub / submitCompanyToGitHub) run against a      *)
(* remote store of commits, branch refs and pull requests.                 *)
(*                                                                         *)
(* Text is a sequence of characters.  An ASCII character is the one-letter *)
(* string; any other code point is the token "U+XXXX".  A JS object is the *)
(* sequence of its <<key, value>> pairs in insertion order.  An optional   *)
(* number (number|null) is <<>> for null and <<n>> for the number n.       *)
(***************************************************************************)
EXTENDS Integers, Sequences, FiniteSets, TLC

\* ------------------------------------------------------------------ bounds
MaxEdits == 4
MaxAttempts == 2
MaxPushes == 1
MaxRows == 1

Sessions == {1, 2}
Kinds == {"robot", "company"}

\* ------------------------------------------------------- program constants
BranchMaxLen == 60
YearMin == 1900
YearMax == 2100
StatusExists == 422

\* ------------------------------------------------------------------- text
UpperChars == <<"A", "B", "C", "D", "E", "F", "G", "H", "I", "J", "K", "L", "M",
                "N", "O", "P", "Q", "R", "S", "T", "U", "V", "W", "X", "Y", "Z",
                "U+00C9", "U+00C3">>
LowerChars == <<"a", "b", "c", "d", "e", "f", "g", "h", "i", "j", "k", "l", "m",
                "n", "o", "p", "q", "r", "s", "t", "u", "v", "w", "x", "y", "z",
                "U+00E9", "U+00E3">>
AsciiUpper == {UpperChars[i] : i \in 1..26}
AsciiLower == {LowerChars[i] : i \in 1..26}
DigitChars == {"0", "1", "2", "3", "4", "5", "6", "7", "8", "9"}
SpaceChars == {" ", "\t", "\n"}
\* code points above U+00FF known to the model
WideChars == {"U+0141", "U+0142"}

Range(f) == {f[i] : i \in DOMAIN f}

\* String.prototype.toLowerCase, character by character
LowerChar(c) ==
  IF \E i \in DOMAIN UpperChars : UpperChars[i] = c
  THEN LowerChars[CHOOSE i \in DOMAIN UpperChars : UpperChars[i] = c]
  ELSE c
toLowerCase(s) == [i \in DOMAIN s |-> LowerChar(s[i])]

\* String.prototype.slice(0, n)
Slice(s, n) == IF Len(s) <= n THEN s ELSE SubSeq(s, 1, n)

\* s.replace(/\s+/g, r): every maximal run of whitespace becomes r
RECURSIVE ReplaceSpaceRuns(_, _)
ReplaceSpaceRuns(s, r) ==
  IF s = <<>> THEN <<>>
  ELSE IF Head(s) \in SpaceChars
       THEN IF Len(s) > 1 /\ s[2] \in SpaceChars
            THEN ReplaceSpaceRuns(Tail(s), r)
            ELSE r \o ReplaceSpaceRuns(Tail(s), r)
       ELSE <<Head(s)>> \o ReplaceSpaceRuns(Tail(s), r)

\* s.replace(/[^...]/g, ''): keep the characters of the class
KeepChars(s, class) == SelectSeq(s, LAMBDA c : c \in class)

\* /^[A-Za-z0-9_.&]+$/
IdChars == AsciiUpper \cup AsciiLower \cup DigitChars \cup {"_", ".", "&"}
idPatternMut(s) == s # <<>>
idPattern(s) == s # <<>> /\ \A i \in DOMAIN s : s[i] \in IdChars

\* /^https?:\/\//
HttpPrefix == <<"h", "t", "t", "p", ":", "/", "/">>
HttpsPrefix == <<"h", "t", "t", "p", "s", ":", "/", "/">>
StartsWith(s, p) == Len(s) >= Len(p) /\ SubSeq(s, 1, Len(p)) = p
IsHttpUrl(s) == StartsWith(s, HttpPrefix) \/ StartsWith(s, HttpsPrefix)

\* /^(19|20)\d{2}$/
FoundedYearPattern(s) ==
  /\ Len(s) = 4
  /\ SubSeq(s, 1, 2) \in {<<"1", "9">>, <<"2", "0">>}
  /\ s[3] \in DigitChars /\ s[4] \in DigitChars

\* UTF-8 bytes of a code point, each byte written as the Latin-1 character
\* of the same value (what atob hands back for the byte)
Utf8Char(c) ==
  CASE c = "U+00C9" -> <<"U+00C3", "U+0089">>
    [] c = "U+00E9" -> <<"U+00C3", "U+00A9">>
    [] c = "U+00C3" -> <<"U+00C3", "U+0083">>
    [] c = "U+00E3" -> <<"U+00C3", "U+00A3">>
    [] c = "U+0141" -> <<"U+00C5", "U+0081">>
    [] c = "U+0142" -> <<"U+00C5", "U+0082">>
    [] OTHER -> <<c>>
RECURSIVE Utf8(_)
Utf8(s) == IF s = <<>> THEN <<>> ELSE Utf8Char(Head(s)) \o Utf8(Tail(s))

\* ------------------------------------------------------------ JS objects
Has(obj, key) == \E i \in DOMAIN obj : obj[i][1] = key
Get(obj, key) == obj[CHOOSE i \in DOMAIN obj : obj[i][1] = key][2]
Keys(obj) == [i \in DOMAIN obj |-> obj[i][1]]
Prop(cond, key, val) == IF cond THEN <<<<key, val>>>> ELSE <<>>

\* ---------------------------------------------------------- literal text
AddRobotPrefix == <<"a", "d", "d", "-", "r", "o", "b", "o", "t", "-">>
AddCompanyPrefix == <<"a", "d", "d", "-", "c", "o", "m", "p", "a", "n", "y", "-">>
FeatRobot == <<"f", "e", "a", "t", "(", "r", "o", "b", "o", "t", ")", ":", " ", "a", "d", "d", " ">>
FeatCompany == <<"f", "e", "a", "t", "(", "c", "o", "m", "p", "a", "n", "y", ")", ":", " ", "a", "d", "d", " ">>
Main == <<"m", "a", "i", "n">>


\* ------------------------------------------------------------------ state
VARIABLES
  form,                \* robot form (reactive)
  companyForm,         \* company form (reactive)
  generatedJson,       \* [session][kind]: generatedJson / generatedCompanyJson
  prHelper,            \* [session][kind]: prHelper / companyPrHelper
  copied,              \* [session]: copied, copiedPR, copiedCompany, copiedCompanyPR
  validator,           \* [session][kind]: robotValidator / companyValidator
  schemaErrors,        \* [session][kind]: robotSchemaErrors / companySchemaErrors
  allRobotIds,         \* [session]: ids loaded from /robots.json
  mountPc,             \* [session]: position of the onMounted chain
  githubToken,         \* [session]
  branchInput,         \* [session][kind]: robotBranch / companyBranch
  commitMsgInput,      \* [session][kind]: robotCommitMsg / companyCommitMsg
  submitting,          \* [session][kind]: submittingRobot / submittingCompany
  submitResult,        \* [session][kind]: robotSubmitResult / companySubmitResult
  attempts,            \* [session][kind]: the submit chains started and not yet replaced
  commits,             \* remote: commit number -> tree of the two dataset files
  refs,                \* remote: branch name -> commit number
  pulls,               \* remote: pull requests, in order of creation
  edits,               \* [session]: input events so far (bounded by MaxEdits)
  started              \* [session]: submit clicks so far (bounded by MaxAttempts)

formVars == <<form, companyForm>>
genVars == <<generatedJson, prHelper, copied, schemaErrors>>
mountVars == <<validator, allRobotIds, mountPc>>
inputVars == <<githubToken, branchInput, commitMsgInput>>
submitVars == <<submitting, submitResult, attempts>>
remoteVars == <<commits, refs, pulls>>
boundVars == <<edits, started>>
vars == <<formVars, genVars, mountVars, inputVars, submitVars, remoteVars, boundVars>>

NoText == <<>>
Null == <<>>

\* ------------------------------------------------------------ form model
EmptyRobotForm ==
  [name |-> <<>>, id |-> <<>>, introduction_year |-> Null, description |-> <<>>,
   urls |-> <<>>, photos |-> <<>>, tags |-> <<>>, usages |-> <<>>, regulatory |-> <<>>]
EmptyCompanyForm ==
  [name |-> <<>>, country |-> <<>>, description |-> <<>>, employee_count |-> Null,
   founded_year |-> <<>>, company_type |-> <<>>, linkedin_url |-> <<>>,
   opencorporates_url |-> <<>>, urls |-> <<>>, robots |-> <<>>]
EmptyUrlRow == [caption |-> <<>>, url |-> <<>>]
EmptyPhotoRow == [url |-> <<>>, site |-> <<>>]
EmptyRegRow == [body |-> <<>>, year |-> Null, region |-> Null, type |-> Null,
                source_urls |-> <<>>, sourceUrlInput |-> <<>>]

\* indices of the rows of rows satisfying Bad, in order (forEach with idx)
BadRows(rows, Bad(_)) == SelectSeq([i \in DOMAIN rows |-> i], LAMBDA i : Bad(rows[i]))
RowIssues(rows, Bad(_), msg) ==
  LET bad == BadRows(rows, Bad) IN [j \in DOMAIN bad |-> [msg |-> msg, idx |-> bad[j]]]
Issue(cond, msg) == IF cond THEN <<[msg |-> msg, idx |-> 0]>> ELSE <<>>
YearOutOfRange(y) == y # Null /\ (y[1] < YearMin \/ y[1] > YearMax)

validId(f) == idPattern(f.id)
canGenerate(f) == f.name # <<>> /\ f.id # <<>> /\ validId(f)

validationIssues(f) ==
  Issue(f.name = <<>>, "Name is required.")
  \o (IF f.id = <<>> THEN Issue(TRUE, "ID is required.")
      ELSE Issue(~validId(f), "ID must match ^[A-Za-z0-9_.&]+$."))
  \o Issue(YearOutOfRange(f.introduction_year),
           "Introduction year must be between 1900 and 2100.")
  \o RowIssues(f.urls, LAMBDA u : u.url # <<>> /\ ~IsHttpUrl(u.url),
               "URL #idx must start with http or https.")
  \o RowIssues(f.photos, LAMBDA p : p.url # <<>> /\ ~IsHttpUrl(p.url),
               "Photo URL #idx must start with http or https.")
  \o RowIssues(f.regulatory, LAMBDA r : YearOutOfRange(r.year),
               "Regulatory entry #idx year out of range.")

companyValidationIssues(c) ==
  Issue(c.name = <<>>, "Company name required.")
  \o Issue(c.country = <<>>, "Country required.")
  \o RowIssues(c.urls, LAMBDA u : u.url # <<>> /\ ~IsHttpUrl(u.url),
               "Company URL #idx invalid.")
  \o Issue(c.linkedin_url # <<>> /\ ~IsHttpUrl(c.linkedin_url), "LinkedIn URL invalid.")
  \o Issue(c.opencorporates_url # <<>> /\ ~IsHttpUrl(c.opencorporates_url),
           "OpenCorporates URL invalid.")
  \o Issue(c.employee_count # Null /\ c.employee_count[1] < 1,
           "Employee count must be >=1.")
  \o Issue(c.founded_year # <<>> /\ ~FoundedYearPattern(c.founded_year),
           "Founded year must be 19xx or 20xx.")
  \o RowIssues(c.robots, LAMBDA r : ~idPattern(r), "Robot ID #idx invalid pattern.")

\* ---------------------------------------------------------- entry builder
\* the object literal built by generate()
BuildRegRow(r) == [body |-> r.body, year |-> r.year, region |-> r.region,
                   type |-> r.type, source_urls |-> r.source_urls]
BuildRobot(f) ==
  LET regFiltered == [i \in DOMAIN SelectSeq(f.regulatory, LAMBDA r : r.body # <<>>) |->
                        BuildRegRow(SelectSeq(f.regulatory, LAMBDA r : r.body # <<>>)[i])]
  IN <<<<"name", f.name>>, <<"id", f.id>>>>
     \o Prop(f.introduction_year # Null /\ f.introduction_year # <<0>>,
             "introduction_year", f.introduction_year)
     \o Prop(f.description # <<>>, "description", f.description)
     \o Prop(Len(f.urls) > 0, "urls",
             SelectSeq(f.urls, LAMBDA u : u.caption # <<>> /\ u.url # <<>>))
     \o Prop(Len(f.photos) > 0, "photos", SelectSeq(f.photos, LAMBDA p : p.url # <<>>))
     \o Prop(Len(f.tags) > 0, "tags", f.tags)
     \o Prop(Len(f.usages) > 0, "usages", f.usages)
     \o Prop(Len(regFiltered) > 0, "regulatory", regFiltered)

\* the object literal built by generateCompany()
BuildCompany(c) ==
  LET urls == SelectSeq(c.urls, LAMBDA u : u.caption # <<>> /\ u.url # <<>>)
  IN <<<<"name", c.name>>, <<"country", c.country>>>>
     \o Prop(c.description # <<>>, "description", c.description)
     \o Prop(c.employee_count # Null, "employee_count", c.employee_count)
     \o Prop(c.founded_year # <<>>, "founded_year", c.founded_year)
     \o Prop(c.company_type # <<>>, "company_type", c.company_type)
     \o Prop(c.linkedin_url # <<>>, "linkedin_url", c.linkedin_url)
     \o Prop(c.opencorporates_url # <<>>, "opencorporates_url", c.opencorporates_url)
     \o Prop(Len(urls) > 0, "urls", urls)
     \o Prop(Len(c.robots) > 0, "robots", c.robots)

\* JSON.stringify(obj, null, 2) of an object of strings, numbers, nulls and
\* arrays: the text is the document of the object (key order kept), and
\* JSON.parse of that text gives the object back
JSONStringify(obj) == <<obj>>
JSONParse(text) == text[1]

\* --------------------------------------------------- branch / commit names
SlugChars == AsciiLower \cup DigitChars \cup {"-"}
CompanySlugMut(name) == KeepChars(toLowerCase(name), SlugChars)
CompanySlug(name) == KeepChars(ReplaceSpaceRuns(toLowerCase(name), <<"-">>), SlugChars)
RobotBranchTemplate(id) == AddRobotPrefix \o id
CompanyBranchTemplate(name) == AddCompanyPrefix \o CompanySlug(name)
RobotCommitTemplate(name, id) == FeatRobot \o name \o <<" ", "(">> \o id \o <<")">>
CompanyCommitTemplate(name) == FeatCompany \o name


\* ------------------------------------------------------------ remote store
\* A dataset file as the remote holds it: whether its text parses as JSON and,
\* if so, the array it parses to.  Strings of the array are written in the
\* byte view (one character per UTF-8 byte), the view atob gives of the file.
File(arr) == [parses |-> TRUE, arr |-> arr]
NoFile == [parses |-> FALSE, arr |-> <<>>]
\* the blob SHA the contents API reports is a function of the content alone
BlobShaMut(file) == NoFile
BlobSha(file) == file
\* a dataset entry of plain string fields as stored in a UTF-8 file
Utf8Entry(e) == [i \in DOMAIN e |-> <<e[i][1], Utf8(e[i][2])>>]

DatasetPath(k) == IF k = "robot" THEN "public/robots.json" ELSE "public/companies.json"
HeadCommit(branch) == commits[refs[branch]]
\* the text of a property the response body does not have
Undefined == <<"u", "n", "d", "e", "f", "i", "n", "e", "d">>
PullUrl(n) == <<"p", "u", "l", "l", "/", <<"1", "2", "3", "4", "5", "6", "7", "8", "9">>[n]>>

\* POST /git/refs: 422 when the ref exists, 201 when it was created
CreateRefStatus(name) == IF name \in DOMAIN refs THEN StatusExists ELSE 201
\* PUT /contents: 404 without the branch, 409 when sha is not the blob on it
PutFileStatusMain(k, branch, sha) ==
  IF branch \notin DOMAIN refs THEN 404
  ELSE IF BlobSha(HeadCommit(Main).tree[k]) # sha THEN 409 ELSE 200
PutFileStatusMut(k, branch, sha) == IF branch \notin DOMAIN refs THEN 404 ELSE 200
PutFileStatus(k, branch, sha) ==
  IF branch \notin DOMAIN refs THEN 404
  ELSE IF BlobSha(HeadCommit(branch).tree[k]) # sha THEN 409 ELSE 200
\* POST /pulls: 422 when head is missing, has nothing ahead of base, or
\* already has an open pull request to base; 201 otherwise
CreatePullStatus(head, base) ==
  IF \/ head \notin DOMAIN refs
     \/ HeadCommit(head).tree = HeadCommit(base).tree
     \/ \E i \in DOMAIN pulls : pulls[i].head = head /\ pulls[i].base = base
  THEN 422 ELSE 201
IsOk(status) == status >= 200 /\ status <= 299

\* --------------------------------------------------------- submission chain
\* result texts: pre, then arg, then post
NoResult == [pre |-> "", arg |-> <<>>, post |-> ""]
Message(text) == [pre |-> text, arg |-> <<>>, post |-> ""]
ErrorResult(message) == [pre |-> "Error: ", arg |-> <<>>, post |-> message]
ExistsResult(k, newObj) ==
  IF k = "robot"
  THEN [pre |-> "Robot id ", arg |-> Get(newObj, "id"), post |-> " already exists."]
  ELSE [pre |-> "Company ", arg |-> Get(newObj, "name"), post |-> " already exists."]
SuccessResult(url) == [pre |-> "Success! PR: ", arg |-> url, post |-> ""]
\* e.message of the TypeError a rejected fetch throws
NetworkErrorMessage == "Failed to fetch"

NoReq == [branch |-> <<>>, baseSha |-> 0, fileSha |-> NoFile, content |-> NoFile,
          message |-> <<>>, auth |-> <<>>]
NewAttempt(token) ==
  [pc |-> "getRef", req |-> [NoReq EXCEPT !.auth = token, !.branch = Main],
   mainSha |-> 0, branchName |-> <<>>, existing |-> NoFile, newObj |-> <<>>,
   calls |-> <<>>]
Call(op, a, status) ==
  [op |-> op, branch |-> a.req.branch, auth |-> a.req.auth, status |-> status]
Outstanding(a) == a.pc # "done"

validationIssuesOf(s, k) ==
  IF k = "robot" THEN validationIssues(form[s]) ELSE companyValidationIssues(companyForm[s])
\* anyRobotIssues / anyCompanyIssues
anyIssuesMut(s, k) == Len(validationIssuesOf(s, k)) > 0
anyIssues(s, k) == Len(validationIssuesOf(s, k)) > 0 \/ Len(schemaErrors[s][k]) > 0

\* branchName of the chain: the branch input, else the template on the form
BranchNameOf(s, k) ==
  IF branchInput[s][k] # <<>> THEN branchInput[s][k]
  ELSE IF k = "robot" THEN RobotBranchTemplate(form[s].id)
       ELSE CompanyBranchTemplate(companyForm[s].name)
\* commit message / PR title: the message input, else the template on newObj
CommitMessageOf(s, k, newObj) ==
  IF commitMsgInput[s][k] # <<>> THEN commitMsgInput[s][k]
  ELSE IF k = "robot" THEN RobotCommitTemplate(Get(newObj, "name"), Get(newObj, "id"))
       ELSE CompanyCommitTemplate(Get(newObj, "name"))
PullBody(k) ==
  IF k = "robot" THEN "Add new robot entry via web form."
  ELSE "Add new company entry via web form."

\* arr.some(...) of the duplicate-key check: "dup", "none", or "throw" when
\* the callback reads .toLowerCase of a missing name
DuplicateScanMut(k, arr, newObj) == "none"
RECURSIVE DuplicateScan(_, _, _)
DuplicateScan(k, arr, newObj) ==
  IF arr = <<>> THEN "none"
  ELSE IF k = "robot"
       THEN IF Has(Head(arr), "id") /\ Get(Head(arr), "id") = Get(newObj, "id")
            THEN "dup" ELSE DuplicateScan(k, Tail(arr), newObj)
       ELSE IF ~Has(Head(arr), "name") THEN "throw"
            ELSE IF toLowerCase(Get(Head(arr), "name")) = toLowerCase(Get(newObj, "name"))
                 THEN "dup" ELSE DuplicateScan(k, Tail(arr), newObj)

\* const newObj=JSON.parse(generatedJson.value)
NewObjOfMut(s, k) == IF k = "robot" THEN BuildRobot(form[s]) ELSE BuildCompany(companyForm[s])
NewObjOf(s, k) == JSONParse(generatedJson[s][k])

\* arr.push(newObj)
PushEntryMut(arr, newObj) == <<newObj>> \o arr
PushEntry(arr, newObj) == Append(arr, newObj)

\* btoa throws on a character above U+00FF
HasWide(s) == \E i \in DOMAIN s : s[i] \in WideChars
StringsOf(obj) ==
  {obj[i][2] : i \in {j \in DOMAIN obj :
      obj[j][1] \in {"name", "id", "country", "description", "founded_year",
                     "company_type", "linkedin_url", "opencorporates_url"}}}
BtoaThrows(arr) == \E i \in DOMAIN arr : \E s \in StringsOf(arr[i]) : HasWide(s)


\* ------------------------------------------------------------ input values
Ion == <<"I", "o", "n">>
Id_ion_2 == <<"i", "o", "n", "_", "2">>
Id_x == <<"x">>
AcmeRobotics == <<"A", "c", "m", "e", " ", "R", "o", "b", "o", "t", "i", "c", "s">>
acme_robotics == <<"a", "c", "m", "e", " ", "r", "o", "b", "o", "t", "i", "c", "s">>
Eacute == <<"U+00C9">>
US == <<"U", "S">>
Token == <<"t">>

RobotNameInputs == {Ion}
RobotIdInputs == {Id_ion_2, Id_x}
CompanyNameInputs == {AcmeRobotics, Eacute}
CountryInputs == {US}
TokenInputs == {Token}
BranchInputs == {Main, <<>>}
CommitMsgInputs == {<<"m">>}

HttpsA == <<"h", "t", "t", "p", "s", ":", "/", "/", "a">>
Ramis == <<"R", "A", "M", "I", "S">>
Knee == <<"K", "n", "e", "e">>
FDA == <<"F", "D", "A">>
CaptionInputs == {<<"c">>}
UrlInputs == {HttpsA}
TagInputs == {Ramis}
UsageInputs == {Knee}
BodyInputs == {FDA}

\* the datasets on the default branch when the sessions start
SeedRobots == <<Utf8Entry(<<<<"name", Ion>>, <<"id", Id_ion_2>>>>)>>
SeedCompanies == <<Utf8Entry(<<<<"name", acme_robotics>>, <<"country", US>>>>),
                   Utf8Entry(<<<<"name", Eacute>>, <<"country", US>>>>)>>
\* what another writer pushes to the default branch
Id_y == <<"y">>
OtherRobot == Utf8Entry(<<<<"name", Ion>>, <<"id", Id_y>>>>)

\* ------------------------------------------------------------------- Init
NoHelper == [branch |-> <<>>, commitMsg |-> <<>>]
NotCopied == [copied |-> FALSE, copiedPR |-> FALSE, copiedCompany |-> FALSE,
              copiedCompanyPR |-> FALSE]
PerKind(v) == [s \in Sessions |-> [k \in Kinds |-> v]]

InitRemote ==
  /\ commits = <<[tree |-> [robot |-> File(SeedRobots), company |-> File(SeedCompanies)],
                  by |-> 0]>>
  /\ refs = (Main :> 1)
  /\ pulls = <<>>

InitSession ==
  /\ form = [s \in Sessions |-> EmptyRobotForm]
  /\ companyForm = [s \in Sessions |-> EmptyCompanyForm]
  /\ generatedJson = PerKind(NoText)
  /\ prHelper = PerKind(NoHelper)
  /\ copied = [s \in Sessions |-> NotCopied]
  /\ schemaErrors = PerKind(<<>>)
  /\ githubToken = [s \in Sessions |-> <<>>]
  /\ branchInput = PerKind(<<>>)
  /\ commitMsgInput = PerKind(<<>>)
  /\ submitting = PerKind(FALSE)
  /\ submitResult = PerKind(NoResult)
  /\ attempts = PerKind(<<>>)
  /\ edits = [s \in Sessions |-> 0]
  /\ started = [s \in Sessions |-> 0]

\* the component just constructed: onMounted has not fetched anything yet
InitForm ==
  /\ InitSession /\ InitRemote
  /\ validator = PerKind("none")
  /\ allRobotIds = [s \in Sessions |-> <<>>]
  /\ mountPc = [s \in Sessions |-> "robotSchema"]

\* the component once onMounted has run with every fetch answered
Init ==
  /\ InitSession /\ InitRemote
  /\ validator = PerKind("compiled")
  /\ allRobotIds = [s \in Sessions |-> <<Id_ion_2>>]
  /\ mountPc = [s \in Sessions |-> "done"]

\* ------------------------------------------------------------ form inputs
Edit(s) == edits[s] < MaxEdits /\ edits' = [edits EXCEPT ![s] = @ + 1]

\* v-model on a field of the robot form
SetRobotField(s, field, v) ==
  /\ form[s][field] # v
  /\ Edit(s)
  /\ form' = [form EXCEPT ![s][field] = v]
  /\ UNCHANGED <<companyForm, genVars, mountVars, inputVars, submitVars, remoteVars, started>>

\* v-model on a field of the company form
SetCompanyField(s, field, v) ==
  /\ companyForm[s][field] # v
  /\ Edit(s)
  /\ companyForm' = [companyForm EXCEPT ![s][field] = v]
  /\ UNCHANGED <<form, genVars, mountVars, inputVars, submitVars, remoteVars, started>>

\* v-model="githubToken"
SetToken(s, v) ==
  /\ githubToken[s] # v
  /\ generatedJson[s] # PerKind(NoText)[s]
  /\ Edit(s)
  /\ githubToken' = [githubToken EXCEPT ![s] = v]
  /\ UNCHANGED <<formVars, genVars, mountVars, branchInput, commitMsgInput, submitVars,
                 remoteVars, started>>

\* v-model="robotBranch" / "companyBranch"
SetBranch(s, k, v) ==
  /\ branchInput[s][k] # v
  /\ generatedJson[s][k] # NoText
  /\ Edit(s)
  /\ branchInput' = [branchInput EXCEPT ![s][k] = v]
  /\ UNCHANGED <<formVars, genVars, mountVars, githubToken, commitMsgInput, submitVars,
                 remoteVars, started>>

\* v-model="robotCommitMsg" / "companyCommitMsg"
SetCommitMsg(s, k, v) ==
  /\ commitMsgInput[s][k] # v
  /\ generatedJson[s][k] # NoText
  /\ Edit(s)
  /\ commitMsgInput' = [commitMsgInput EXCEPT ![s][k] = v]
  /\ UNCHANGED <<formVars, genVars, mountVars, githubToken, branchInput, submitVars,
                 remoteVars, started>>


\* ------------------------------------------------------------ form mutators
otherThanForm == <<companyForm, genVars, mountVars, inputVars, submitVars, remoteVars, started>>
otherThanCompanyForm == <<form, genVars, mountVars, inputVars, submitVars, remoteVars, started>>

\* list.push(row)
AddRow(s, list, row) ==
  /\ Len(form[s][list]) < MaxRows
  /\ Edit(s)
  /\ form' = [form EXCEPT ![s][list] = Append(@, row)]
  /\ UNCHANGED otherThanForm
\* list.splice(i, 1)
RemoveAt(seq, i) == SubSeq(seq, 1, i - 1) \o SubSeq(seq, i + 1, Len(seq))
RemoveRow(s, list, i) ==
  /\ i \in DOMAIN form[s][list]
  /\ Edit(s)
  /\ form' = [form EXCEPT ![s][list] = RemoveAt(@, i)]
  /\ UNCHANGED otherThanForm
\* v-model on a field of row i of a list
SetRow(s, list, i, field, v) ==
  /\ i \in DOMAIN form[s][list]
  /\ form[s][list][i][field] # v
  /\ Edit(s)
  /\ form' = [form EXCEPT ![s][list][i][field] = v]
  /\ UNCHANGED otherThanForm
\* idx>=0 ? list.splice(idx,1) : list.push(t)
Toggled(seq, t) ==
  IF \E i \in DOMAIN seq : seq[i] = t
  THEN RemoveAt(seq, CHOOSE i \in DOMAIN seq : seq[i] = t)
  ELSE Append(seq, t)
Toggle(s, list, t) ==
  /\ Edit(s)
  /\ form' = [form EXCEPT ![s][list] = Toggled(@, t)]
  /\ UNCHANGED otherThanForm

addUrl(s) == AddRow(s, "urls", EmptyUrlRow)
removeUrl(s, i) == RemoveRow(s, "urls", i)
addPhoto(s) == AddRow(s, "photos", EmptyPhotoRow)
removePhoto(s, i) == RemoveRow(s, "photos", i)
toggleTag(s, t) == Toggle(s, "tags", t)
toggleUsage(s, u) == Toggle(s, "usages", u)
addReg(s) == AddRow(s, "regulatory", EmptyRegRow)
removeReg(s, i) == RemoveRow(s, "regulatory", i)

addCompanyUrl(s) ==
  /\ Len(companyForm[s].urls) < MaxRows
  /\ Edit(s)
  /\ companyForm' = [companyForm EXCEPT ![s].urls = Append(@, EmptyUrlRow)]
  /\ UNCHANGED otherThanCompanyForm
removeCompanyUrl(s, i) ==
  /\ i \in DOMAIN companyForm[s].urls
  /\ Edit(s)
  /\ companyForm' = [companyForm EXCEPT ![s].urls = RemoveAt(@, i)]
  /\ UNCHANGED otherThanCompanyForm
SetCompanyUrlRow(s, i, field, v) ==
  /\ i \in DOMAIN companyForm[s].urls
  /\ companyForm[s].urls[i][field] # v
  /\ Edit(s)
  /\ companyForm' = [companyForm EXCEPT ![s].urls[i][field] = v]
  /\ UNCHANGED otherThanCompanyForm
\* one button per id of allRobotIds
toggleCompanyRobot(s, id) ==
  /\ id \in Range(allRobotIds[s])
  /\ Edit(s)
  /\ companyForm' = [companyForm EXCEPT ![s].robots = Toggled(@, id)]
  /\ UNCHANGED otherThanCompanyForm

\* ---------------------------------------------------------------- onMounted
\* the three fetches of onMounted, one after the other; a fetch that fails
\* (or a schema that does not compile) leaves its target as it was
\* doc is the schema document the site serves, named by what it compiles to
MountWith(s, ok, doc) ==
  /\ mountPc[s] # "done"
  /\ CASE mountPc[s] = "robotSchema" ->
            /\ validator' = [validator EXCEPT ![s]["robot"] = IF ok THEN doc ELSE @]
            /\ mountPc' = [mountPc EXCEPT ![s] = "robotIds"]
            /\ UNCHANGED allRobotIds
       [] mountPc[s] = "robotIds" ->
            /\ allRobotIds' = [allRobotIds EXCEPT ![s] =
                  IF ok THEN [i \in DOMAIN SeedRobots |-> Get(SeedRobots[i], "id")] ELSE @]
            /\ mountPc' = [mountPc EXCEPT ![s] = "companySchema"]
            /\ UNCHANGED validator
       [] mountPc[s] = "companySchema" ->
            /\ validator' = [validator EXCEPT ![s]["company"] = IF ok THEN doc ELSE @]
            /\ mountPc' = [mountPc EXCEPT ![s] = "done"]
            /\ UNCHANGED allRobotIds
  /\ UNCHANGED <<formVars, genVars, inputVars, submitVars, remoteVars, boundVars>>
MountStep(s, ok) == MountWith(s, ok, "compiled")

\* ------------------------------------------------------ schema validation
\* errors of the compiled schema on a built entry: the required keys of the
\* data model and the id pattern
SchemaViolations(k, obj) ==
  IF k = "robot"
  THEN Prop(~Has(obj, "name"), "/", "must have required property 'name'")
       \o Prop(~Has(obj, "id"), "/", "must have required property 'id'")
       \o Prop(Has(obj, "id") /\ ~idPattern(Get(obj, "id")), "/id", "must match pattern")
  ELSE Prop(~Has(obj, "name"), "/", "must have required property 'name'")
       \o Prop(~Has(obj, "country"), "/", "must have required property 'country'")

\* a schema document that also requires a description
StrictViolations(k, obj) ==
  SchemaViolations(k, obj)
  \o Prop(~Has(obj, "description"), "/", "must have required property 'description'")

\* validateRobotObject / validateCompanyObject: the new value of the error list
validateObjectMut(s, k, obj) ==
  IF validator[s][k] = "compiled" THEN SchemaViolations(k, obj) ELSE <<>>
validateObject(s, k, obj) ==
  CASE validator[s][k] = "compiled" -> SchemaViolations(k, obj)
    [] validator[s][k] = "strict" -> StrictViolations(k, obj)
    [] OTHER -> <<>>

\* ---------------------------------------------------------------- generate
generateMut(s) ==
  /\ canGenerate(form[s]) /\ Len(validationIssues(form[s])) = 0
  /\ LET robot == BuildRobot(form[s]) IN
       /\ schemaErrors' = [schemaErrors EXCEPT ![s]["robot"] = validateObject(s, "robot", robot)]
       /\ generatedJson' = [generatedJson EXCEPT ![s]["robot"] = JSONStringify(robot)]
  /\ copied' = [copied EXCEPT ![s].copied = FALSE]
  /\ branchInput' = [branchInput EXCEPT ![s]["robot"] =
        IF @ = <<>> THEN Slice(RobotBranchTemplate(form[s].id), BranchMaxLen) ELSE @]
  /\ commitMsgInput' = [commitMsgInput EXCEPT ![s]["robot"] =
        IF @ = <<>> THEN RobotCommitTemplate(form[s].name, form[s].id) ELSE @]
  /\ form' = [form EXCEPT ![s].tags = <<>>, ![s].usages = <<>>]
  /\ UNCHANGED <<companyForm, prHelper, mountVars, githubToken, submitVars, remoteVars, boundVars>>
\* if(!canGenerate.value || validationIssues.value.length) return
GenerateBlockedMut(f) == ~canGenerate(f)
GenerateBlocked(f) == ~canGenerate(f) \/ Len(validationIssues(f)) > 0
generate(s) ==
  /\ ~GenerateBlocked(form[s])
  /\ LET robot == BuildRobot(form[s]) IN
       /\ schemaErrors' = [schemaErrors EXCEPT ![s]["robot"] = validateObject(s, "robot", robot)]
       /\ generatedJson' = [generatedJson EXCEPT ![s]["robot"] = JSONStringify(robot)]
  /\ copied' = [copied EXCEPT ![s].copied = FALSE]
  /\ branchInput' = [branchInput EXCEPT ![s]["robot"] =
        IF @ = <<>> THEN Slice(RobotBranchTemplate(form[s].id), BranchMaxLen) ELSE @]
  /\ commitMsgInput' = [commitMsgInput EXCEPT ![s]["robot"] =
        IF @ = <<>> THEN RobotCommitTemplate(form[s].name, form[s].id) ELSE @]
  /\ UNCHANGED <<formVars, prHelper, mountVars, githubToken, submitVars, remoteVars, boundVars>>

generateCompany(s) ==
  /\ Len(companyValidationIssues(companyForm[s])) = 0
  /\ LET c == BuildCompany(companyForm[s]) IN
       /\ schemaErrors' = [schemaErrors EXCEPT ![s]["company"] = validateObject(s, "company", c)]
       /\ generatedJson' = [generatedJson EXCEPT ![s]["company"] = JSONStringify(c)]
  /\ copied' = [copied EXCEPT ![s].copiedCompany = FALSE]
  /\ branchInput' = [branchInput EXCEPT ![s]["company"] =
        IF @ = <<>> THEN Slice(CompanyBranchTemplate(companyForm[s].name), BranchMaxLen) ELSE @]
  /\ commitMsgInput' = [commitMsgInput EXCEPT ![s]["company"] =
        IF @ = <<>> THEN CompanyCommitTemplate(companyForm[s].name) ELSE @]
  /\ UNCHANGED <<formVars, prHelper, mountVars, githubToken, submitVars, remoteVars, boundVars>>

\* ---------------------------------------------------------------- PR helper
\* the branch and commit message written into the instructions
buildPRInstructions(s) ==
  /\ generatedJson[s]["robot"] # NoText
  /\ prHelper' = [prHelper EXCEPT ![s]["robot"] =
        [branch |-> RobotBranchTemplate(form[s].id),
         commitMsg |-> RobotCommitTemplate(form[s].name, form[s].id)]]
  /\ copied' = [copied EXCEPT ![s].copiedPR = FALSE]
  /\ UNCHANGED <<formVars, generatedJson, schemaErrors, mountVars, inputVars, submitVars,
                 remoteVars, boundVars>>

buildCompanyPR(s) ==
  /\ generatedJson[s]["company"] # NoText
  /\ prHelper' = [prHelper EXCEPT ![s]["company"] =
        [branch |-> Slice(CompanyBranchTemplate(companyForm[s].name), BranchMaxLen),
         commitMsg |-> CompanyCommitTemplate(companyForm[s].name)]]
  /\ copied' = [copied EXCEPT ![s].copiedCompanyPR = FALSE]
  /\ UNCHANGED <<formVars, generatedJson, schemaErrors, mountVars, inputVars, submitVars,
                 remoteVars, boundVars>>

\* ------------------------------------------------------------- submission
\* :disabled and v-if of the Submit ... Pull Request button
SubmitButtonEnabledMut(s, k) ==
  /\ generatedJson[s][k] # NoText
  /\ githubToken[s] # <<>>
  /\ ~anyIssues(s, k)
SubmitButtonEnabled(s, k) ==
  /\ generatedJson[s][k] # NoText
  /\ ~submitting[s][k]
  /\ githubToken[s] # <<>>
  /\ ~anyIssues(s, k)

\* the handler up to its first await: the three local checks, then the flag
\* and the GET of the default branch's ref
submitToGitHub(s, k) ==
  /\ started[s] < MaxAttempts
  /\ started' = [started EXCEPT ![s] = @ + 1]
  /\ IF githubToken[s] = <<>>
     THEN /\ submitResult' = [submitResult EXCEPT ![s][k] = Message("GitHub token required.")]
          /\ UNCHANGED <<submitting, attempts>>
     ELSE IF generatedJson[s][k] = NoText
     THEN /\ submitResult' = [submitResult EXCEPT ![s][k] =
                Message(IF k = "robot" THEN "Generate JSON first."
                        ELSE "Generate company JSON first.")]
          /\ UNCHANGED <<submitting, attempts>>
     ELSE IF anyIssues(s, k)
     THEN /\ submitResult' = [submitResult EXCEPT ![s][k] =
                Message("Fix validation/schema issues first.")]
          /\ UNCHANGED <<submitting, attempts>>
     ELSE /\ submitResult' = [submitResult EXCEPT ![s][k] = NoResult]
          /\ submitting' = [submitting EXCEPT ![s][k] = TRUE]
          /\ attempts' = [attempts EXCEPT ![s][k] =
                Append(SelectSeq(@, Outstanding), NewAttempt(githubToken[s]))]
  /\ UNCHANGED <<formVars, genVars, mountVars, inputVars, remoteVars, edits>>

ClickSubmit(s, k) == SubmitButtonEnabled(s, k) /\ submitToGitHub(s, k)

\* the chain ends: catch / finally, or the early return of the duplicate check
FinishMut(s, k, i, a, call, result) ==
  /\ attempts' = [attempts EXCEPT ![s][k][i] =
        [a EXCEPT !.pc = "done", !.req = NoReq, !.calls = Append(@, call)]]
  /\ submitResult' = [submitResult EXCEPT ![s][k] = result]
  /\ UNCHANGED submitting
Finish(s, k, i, a, call, result) ==
  /\ attempts' = [attempts EXCEPT ![s][k][i] =
        [a EXCEPT !.pc = "done", !.req = NoReq, !.calls = Append(@, call)]]
  /\ submitResult' = [submitResult EXCEPT ![s][k] = result]
  /\ submitting' = [submitting EXCEPT ![s][k] = FALSE]

\* the chain goes on to its next await, where req is sent
Continue(s, k, i, a, call, pc, req) ==
  /\ attempts' = [attempts EXCEPT ![s][k][i] =
        [a EXCEPT !.pc = pc, !.req = req, !.calls = Append(@, call)]]
  /\ UNCHANGED <<submitting, submitResult>>

\* how a fetch ends: answered by the store, refused with a non-ok status that
\* does not come from the state of the store, or rejected (thrown)
Outcomes == {"answered", "refused", "thrown"}
RefusedStatus == 403
Thrown(s, k, i, op) ==
  Finish(s, k, i, attempts[s][k][i], Call(op, attempts[s][k][i], 0),
         ErrorResult(NetworkErrorMessage))

ErrorText(step, k) ==
  CASE step = "getRef" -> "Failed to fetch main ref"
    [] step = "createRef" -> "Failed to create branch"
    [] step = "getFile" ->
         IF k = "robot" THEN "Failed to fetch robots.json" ELSE "Failed to fetch companies.json"
    [] step = "parse" ->
         IF k = "robot" THEN "Parse robots.json failed" ELSE "Parse companies.json failed"
    [] step = "putFile" ->
         IF k = "robot" THEN "Failed to update robots.json" ELSE "Failed to update companies.json"
    [] step = "createPR" -> "Failed to create PR"

\* if(!refResp.ok) throw
GetRefFailedMut(status) == FALSE
GetRefFailed(status) == ~IsOk(status)
\* if(createBranchResp.status!==422 && !createBranchResp.ok) throw
CreateRefFailedMut(status) == ~IsOk(status)
CreateRefFailed(status) == status # StatusExists /\ ~IsOk(status)
\* if(!robotsResp.ok) throw
GetFileFailed(status) == ~IsOk(status)
\* if(!putResp.ok) throw
PutFileFailedNever(status) == FALSE
PutFileFailedMut(status) == status # 409 /\ ~IsOk(status)
PutFileFailed(status) == ~IsOk(status)
\* if(!prResp.ok) throw
CreatePRFailedMut(status) == FALSE
CreatePRFailed(status) == ~IsOk(status)

\* step 1 answered: GET git/refs/heads/main; then POST git/refs is sent
GetRefStep(s, k, i, out) ==
  LET a == attempts[s][k][i]
      status == IF out = "answered" THEN 200 ELSE RefusedStatus
      call == Call("GetRef", a, status)
      b == [a EXCEPT !.mainSha = refs[Main], !.branchName = BranchNameOf(s, k)]
  IN /\ a.pc = "getRef"
     /\ IF out = "thrown" THEN Thrown(s, k, i, "GetRef")
        ELSE IF GetRefFailed(status)
        THEN Finish(s, k, i, a, call, ErrorResult(ErrorText("getRef", k)))
        ELSE Continue(s, k, i, b, call, "createRef",
                      [NoReq EXCEPT !.branch = b.branchName, !.baseSha = b.mainSha,
                                    !.auth = githubToken[s]])
     /\ UNCHANGED <<formVars, genVars, mountVars, inputVars, remoteVars, boundVars>>

\* step 2 answered: POST git/refs; then GET contents/...?ref=main is sent
\* (without an Authorization header)
CreateRefStep(s, k, i, out) ==
  LET a == attempts[s][k][i]
      status == IF out = "answered" THEN CreateRefStatus(a.req.branch) ELSE RefusedStatus
      call == Call("CreateRef", a, status)
  IN /\ a.pc = "createRef"
     /\ IF out = "thrown" THEN Thrown(s, k, i, "CreateRef") /\ UNCHANGED refs
        ELSE /\ refs' = IF status = 201 THEN refs @@ (a.req.branch :> a.req.baseSha) ELSE refs
             /\ IF CreateRefFailed(status)
                THEN Finish(s, k, i, a, call, ErrorResult(ErrorText("createRef", k)))
                ELSE Continue(s, k, i, a, call, "getFile", [NoReq EXCEPT !.branch = Main])
     /\ UNCHANGED <<formVars, genVars, mountVars, inputVars, commits, pulls, boundVars>>

\* steps 3 to 7: GET contents answered, decode, parse, duplicate-key check,
\* push, encode; then PUT contents is sent
GetFileStep(s, k, i, out) ==
  LET a == attempts[s][k][i]
      status == IF out = "answered" THEN 200 ELSE RefusedStatus
      file == HeadCommit(Main).tree[k]
      call == Call("GetFile", a, status)
      newObj == NewObjOf(s, k)
      scan == DuplicateScan(k, file.arr, newObj)
      arr == PushEntry(file.arr, newObj)
      b == [a EXCEPT !.existing = file]
      c == [b EXCEPT !.newObj = newObj]
  IN /\ a.pc = "getFile"
     /\ IF out = "thrown" THEN Thrown(s, k, i, "GetFile")
        ELSE IF GetFileFailed(status)
        THEN Finish(s, k, i, a, call, ErrorResult(ErrorText("getFile", k)))
        ELSE IF ~file.parses
        THEN Finish(s, k, i, b, call, ErrorResult(ErrorText("parse", k)))
        ELSE IF scan = "throw"
        THEN Finish(s, k, i, c, call,
                    ErrorResult("Cannot read properties of undefined (reading 'toLowerCase')"))
        ELSE IF scan = "dup"
        THEN Finish(s, k, i, c, call, ExistsResult(k, newObj))
        ELSE IF BtoaThrows(arr)
        THEN Finish(s, k, i, c, call,
                    ErrorResult("Failed to execute 'btoa': characters outside of the Latin1 range"))
        ELSE Continue(s, k, i, c, call, "putFile",
                      [NoReq EXCEPT !.branch = a.branchName, !.fileSha = BlobSha(file),
                                    !.content = File(arr),
                                    !.message = CommitMessageOf(s, k, newObj),
                                    !.auth = githubToken[s]])
     /\ UNCHANGED <<formVars, genVars, mountVars, inputVars, remoteVars, boundVars>>

\* step 8 answered: PUT contents; then POST pulls is sent
PutFileStep(s, k, i, out) ==
  LET a == attempts[s][k][i]
      status == IF out = "answered"
                THEN PutFileStatus(k, a.req.branch, a.req.fileSha) ELSE RefusedStatus
      call == Call("PutFile", a, status)
  IN /\ a.pc = "putFile"
     /\ IF out = "thrown" THEN Thrown(s, k, i, "PutFile") /\ UNCHANGED <<commits, refs>>
        ELSE /\ IF IsOk(status)
                THEN /\ commits' = Append(commits,
                          [tree |-> [HeadCommit(a.req.branch).tree EXCEPT ![k] = a.req.content],
                           by |-> s])
                     /\ refs' = [refs EXCEPT ![a.req.branch] = Len(commits) + 1]
                ELSE UNCHANGED <<commits, refs>>
             /\ IF PutFileFailed(status)
                THEN Finish(s, k, i, a, call, ErrorResult(ErrorText("putFile", k)))
                ELSE Continue(s, k, i, a, call, "createPR",
                              [NoReq EXCEPT !.branch = a.branchName,
                                            !.message = CommitMessageOf(s, k, a.newObj),
                                            !.auth = githubToken[s]])
     /\ UNCHANGED <<formVars, genVars, mountVars, inputVars, pulls, boundVars>>

\* step 9 answered: POST pulls; step 10: the result
CreatePRStep(s, k, i, out) ==
  LET a == attempts[s][k][i]
      status == IF out = "answered" THEN CreatePullStatus(a.req.branch, Main) ELSE RefusedStatus
      call == Call("CreatePullRequest", a, status)
  IN /\ a.pc = "createPR"
     /\ IF out = "thrown" THEN Thrown(s, k, i, "CreatePullRequest") /\ UNCHANGED pulls
        ELSE /\ pulls' = IF IsOk(status)
                         THEN Append(pulls, [head |-> a.req.branch, base |-> Main,
                                             title |-> a.req.message, body |-> PullBody(k),
                                             by |-> s])
                         ELSE pulls
             /\ IF CreatePRFailed(status)
                THEN Finish(s, k, i, a, call, ErrorResult(ErrorText("createPR", k)))
                ELSE Finish(s, k, i, a, call,
                            SuccessResult(IF IsOk(status) THEN PullUrl(Len(pulls) + 1)
                                          ELSE Undefined))
     /\ UNCHANGED <<formVars, genVars, mountVars, inputVars, commits, refs, boundVars>>

\* another writer appends an entry to robots.json on the default branch
OtherPush ==
  /\ Cardinality({i \in DOMAIN commits : commits[i].by = 0}) <= MaxPushes
  /\ HeadCommit(Main).tree.robot.parses
  /\ commits' = Append(commits,
        [tree |-> [HeadCommit(Main).tree EXCEPT
                     !.robot = File(Append(@.arr, OtherRobot))],
         by |-> 0])
  /\ refs' = [refs EXCEPT ![Main] = Len(commits) + 1]
  /\ UNCHANGED <<formVars, genVars, mountVars, inputVars, submitVars, pulls, boundVars>>

\* ------------------------------------------------------------ specification
ChainStep(s, k) ==
  \E i \in DOMAIN attempts[s][k], out \in Outcomes :
    \/ GetRefStep(s, k, i, out)
    \/ CreateRefStep(s, k, i, out)
    \/ GetFileStep(s, k, i, out)
    \/ PutFileStep(s, k, i, out)
    \/ CreatePRStep(s, k, i, out)

\* one session working on both forms, and another writer on the default branch
Next ==
  \/ \E v \in RobotNameInputs : SetRobotField(1, "name", v)
  \/ \E v \in RobotIdInputs : SetRobotField(1, "id", v)
  \/ \E v \in CompanyNameInputs : SetCompanyField(1, "name", v)
  \/ \E v \in CountryInputs : SetCompanyField(1, "country", v)
  \/ \E v \in TokenInputs : SetToken(1, v)
  \/ \E k \in Kinds, v \in BranchInputs : SetBranch(1, k, v)
  \/ \E k \in Kinds, v \in CommitMsgInputs : SetCommitMsg(1, k, v)
  \/ generate(1)
  \/ generateCompany(1)
  \/ \E k \in Kinds : ClickSubmit(1, k)
  \/ \E k \in Kinds : ChainStep(1, k)
  \/ OtherPush

Spec == Init /\ [][Next]_vars

\* the same session when the branch and commit message inputs are left alone,
\* with the two manual helpers
NextDefaults ==
  \/ \E v \in RobotNameInputs : SetRobotField(1, "name", v)
  \/ \E v \in RobotIdInputs : SetRobotField(1, "id", v)
  \/ \E v \in CompanyNameInputs : SetCompanyField(1, "name", v)
  \/ \E v \in CountryInputs : SetCompanyField(1, "country", v)
  \/ \E v \in TokenInputs : SetToken(1, v)
  \/ generate(1)
  \/ generateCompany(1)
  \/ buildPRInstructions(1)
  \/ buildCompanyPR(1)
  \/ \E k \in Kinds : ClickSubmit(1, k)
  \/ \E k \in Kinds : ChainStep(1, k)
  \/ OtherPush

SpecDefaults == Init /\ [][NextDefaults]_vars

\* one session from construction, filling in the two forms and generating
NextForm ==
  \/ \E ok \in BOOLEAN : MountStep(1, ok)
  \/ \E v \in RobotNameInputs : SetRobotField(1, "name", v)
  \/ \E v \in {Id_x} : SetRobotField(1, "id", v)
  \/ addUrl(1)
  \/ \E i \in 1..MaxRows : removeUrl(1, i)
  \/ \E i \in 1..MaxRows, v \in CaptionInputs : SetRow(1, "urls", i, "caption", v)
  \/ \E i \in 1..MaxRows, v \in UrlInputs : SetRow(1, "urls", i, "url", v)
  \/ addPhoto(1)
  \/ \E i \in 1..MaxRows : removePhoto(1, i)
  \/ \E i \in 1..MaxRows, v \in UrlInputs : SetRow(1, "photos", i, "url", v)
  \/ \E t \in TagInputs : toggleTag(1, t)
  \/ \E u \in UsageInputs : toggleUsage(1, u)
  \/ addReg(1)
  \/ \E i \in 1..MaxRows : removeReg(1, i)
  \/ \E i \in 1..MaxRows, v \in BodyInputs : SetRow(1, "regulatory", i, "body", v)
  \/ \E v \in {AcmeRobotics} : SetCompanyField(1, "name", v)
  \/ \E v \in CountryInputs : SetCompanyField(1, "country", v)
  \/ addCompanyUrl(1)
  \/ \E i \in 1..MaxRows : removeCompanyUrl(1, i)
  \/ \E i \in 1..MaxRows, v \in CaptionInputs : SetCompanyUrlRow(1, i, "caption", v)
  \/ \E i \in 1..MaxRows, v \in UrlInputs : SetCompanyUrlRow(1, i, "url", v)
  \/ \E id \in RobotIdInputs : toggleCompanyRobot(1, id)
  \/ generate(1)
  \/ generateCompany(1)

SpecForm == InitForm /\ [][NextForm]_vars



\* two sessions (two contributors with write access) on the robot form
RaceBranchInputs == {<<"b">>}
NextRace ==
  \E s \in Sessions :
    \/ \E v \in RobotNameInputs : SetRobotField(s, "name", v)
    \/ \E v \in {Id_x} : SetRobotField(s, "id", v)
    \/ \E v \in TokenInputs : SetToken(s, v)
    \/ \E v \in RaceBranchInputs : SetBranch(s, "robot", v)
    \/ generate(s)
    \/ ClickSubmit(s, "robot")
    \/ ChainStep(s, "robot")

SpecRace == Init /\ [][NextRace]_vars

\* one session on the company form against an empty company dataset
InitAcme ==
  /\ InitSession
  /\ commits = <<[tree |-> [robot |-> File(SeedRobots), company |-> File(<<>>)], by |-> 0]>>
  /\ refs = (Main :> 1)
  /\ pulls = <<>>
  /\ validator = PerKind("compiled")
  /\ allRobotIds = [s \in Sessions |-> <<Id_ion_2>>]
  /\ mountPc = [s \in Sessions |-> "done"]
NextAcme ==
  \/ \E v \in {AcmeRobotics} : SetCompanyField(1, "name", v)
  \/ \E v \in CountryInputs : SetCompanyField(1, "country", v)
  \/ \E v \in TokenInputs : SetToken(1, v)
  \/ generateCompany(1)
  \/ buildCompanyPR(1)
  \/ ClickSubmit(1, "company")
  \/ ChainStep(1, "company")

SpecAcme == InitAcme /\ [][NextAcme]_vars

\* one session editing the validated fields of the two forms and generating
BadId == <<"b", "a", "d", " ", "i", "d", "!">>
Id_A9 == <<"A", "_", ".", "&", "9">>
Year1800 == <<1800>>
Year2024 == <<2024>>
BadUrl == <<"f", "t", "p", ":", "/", "/", "a">>
NextGate ==
  \/ \E v \in RobotNameInputs : SetRobotField(1, "name", v)
  \/ \E v \in {Id_x, Id_A9, BadId, NoText} : SetRobotField(1, "id", v)
  \/ \E v \in {Year1800, Year2024} : SetRobotField(1, "introduction_year", v)
  \/ \E v \in {AcmeRobotics} : SetCompanyField(1, "name", v)
  \/ \E v \in CountryInputs : SetCompanyField(1, "country", v)
  \/ \E v \in {BadUrl, HttpsA} : SetCompanyField(1, "linkedin_url", v)
  \/ generate(1)
  \/ generateCompany(1)

SpecGate == Init /\ [][NextGate]_vars

\* one session from construction: the schemas are fetched and compiled, the
\* required fields are typed, and the two submit handlers are called whether
\* or not their buttons are enabled
SchemaDocs == {"compiled", "strict"}
Description == <<"d">>
NextSchema ==
  \/ \E ok \in BOOLEAN, doc \in SchemaDocs : MountWith(1, ok, doc)
  \/ \E v \in RobotNameInputs : SetRobotField(1, "name", v)
  \/ \E v \in {Id_x, BadId} : SetRobotField(1, "id", v)
  \/ \E v \in {Description} : SetRobotField(1, "description", v)
  \/ \E v \in {AcmeRobotics} : SetCompanyField(1, "name", v)
  \/ \E v \in CountryInputs : SetCompanyField(1, "country", v)
  \/ \E v \in TokenInputs : SetToken(1, v)
  \/ generate(1)
  \/ generateCompany(1)
  \/ \E k \in Kinds : submitToGitHub(1, k)

SpecSchema == InitForm /\ [][NextSchema]_vars

\* one session typing into the numeric fields of the two forms
YearInputs == {<<YearMin - 1>>, <<YearMin>>, <<YearMax>>, <<YearMax + 1>>}
CountInputs == {<<0>>, <<1>>}
FoundedYearInputs == {<<"1", "8", "9", "9">>, <<"1", "9", "0", "0">>,
                      <<"2", "1", "0", "0">>, <<"2", "1", "0", "1">>}
NextRange ==
  \/ \E v \in YearInputs : SetRobotField(1, "introduction_year", v)
  \/ addReg(1)
  \/ \E i \in 1..MaxRows, v \in YearInputs : SetRow(1, "regulatory", i, "year", v)
  \/ \E v \in CountInputs : SetCompanyField(1, "employee_count", v)
  \/ \E v \in FoundedYearInputs : SetCompanyField(1, "founded_year", v)

SpecRange == Init /\ [][NextRange]_vars

\* one session that has filled in and generated both forms and typed its
\* credential, against an empty company dataset; edits counts the input
\* events from here on
FilledRobotForm == [EmptyRobotForm EXCEPT !.name = Ion, !.id = Id_x]
FilledCompanyForm == [EmptyCompanyForm EXCEPT !.name = AcmeRobotics, !.country = US]
InitBoth ==
  /\ form = [s \in Sessions |-> IF s = 1 THEN FilledRobotForm ELSE EmptyRobotForm]
  /\ companyForm = [s \in Sessions |-> IF s = 1 THEN FilledCompanyForm ELSE EmptyCompanyForm]
  /\ generatedJson = [s \in Sessions |->
        IF s = 1 THEN [robot |-> JSONStringify(BuildRobot(FilledRobotForm)),
                       company |-> JSONStringify(BuildCompany(FilledCompanyForm))]
        ELSE PerKind(NoText)[s]]
  /\ branchInput = [s \in Sessions |->
        IF s = 1 THEN [robot |-> Slice(RobotBranchTemplate(Id_x), BranchMaxLen),
                       company |-> Slice(CompanyBranchTemplate(AcmeRobotics), BranchMaxLen)]
        ELSE PerKind(<<>>)[s]]
  /\ commitMsgInput = [s \in Sessions |->
        IF s = 1 THEN [robot |-> RobotCommitTemplate(Ion, Id_x),
                       company |-> CompanyCommitTemplate(AcmeRobotics)]
        ELSE PerKind(<<>>)[s]]
  /\ githubToken = [s \in Sessions |-> IF s = 1 THEN Token ELSE <<>>]
  /\ prHelper = PerKind(NoHelper)
  /\ copied = [s \in Sessions |-> NotCopied]
  /\ schemaErrors = PerKind(<<>>)
  /\ submitting = PerKind(FALSE)
  /\ submitResult = PerKind(NoResult)
  /\ attempts = PerKind(<<>>)
  /\ edits = [s \in Sessions |-> 0]
  /\ started = [s \in Sessions |-> 0]
  /\ commits = <<[tree |-> [robot |-> File(SeedRobots), company |-> File(<<>>)], by |-> 0]>>
  /\ refs = (Main :> 1)
  /\ pulls = <<>>
  /\ validator = PerKind("compiled")
  /\ allRobotIds = [s \in Sessions |-> <<Id_ion_2>>]
  /\ mountPc = [s \in Sessions |-> "done"]
NextBoth ==
  \/ \E k \in Kinds, v \in RaceBranchInputs : SetBranch(1, k, v)
  \/ \E k \in Kinds : ClickSubmit(1, k)
  \/ \E k \in Kinds : ChainStep(1, k)

SpecBoth == InitBoth /\ [][NextBoth]_vars

\* the session with both forms generated, when every fetch of a chain settles:
\* the awaited promise resolves or rejects, and the chain then takes its next
\* step
NextLive ==
  \/ \E v \in RobotIdInputs : SetRobotField(1, "id", v)
  \/ generate(1)
  \/ \E k \in Kinds : ClickSubmit(1, k)
  \/ \E k \in Kinds : ChainStep(1, k)

SpecLive == InitBoth /\ [][NextLive]_vars /\ \A k \in Kinds : WF_vars(ChainStep(1, k))

\* one session submitting the robot form again and again under the branch
\* name the first generate chose, and another writer on the default branch
NextRetry ==
  \/ \E v \in RobotNameInputs : SetRobotField(1, "name", v)
  \/ \E v \in RobotIdInputs : SetRobotField(1, "id", v)
  \/ \E v \in TokenInputs : SetToken(1, v)
  \/ generate(1)
  \/ ClickSubmit(1, "robot")
  \/ ChainStep(1, "robot")
  \/ OtherPush

SpecRetry == Init /\ [][NextRetry]_vars

\* ------------------------------------------------------------------ claims
AllAttempts ==
  {<<s, k, i>> : s \in Sessions, k \in Kinds, i \in 1..MaxAttempts} \cap
  {x \in Sessions \X Kinds \X (1..MaxAttempts) : x[3] \in DOMAIN attempts[x[1]][x[2]]}
AttemptAt(x) == attempts[x[1]][x[2]][x[3]]
CallsOf(a, op) == {j \in DOMAIN a.calls : a.calls[j].op = op}
Called(a, op) == CallsOf(a, op) # {}

\* C1: the pipeline never sends a PutFile whose target branch is the default
\* branch, and no commit at the head of the default branch was made by a
\* session of the pipeline.
C1_BranchIsolation ==
  /\ \A x \in AllAttempts : AttemptAt(x).pc = "putFile" => AttemptAt(x).req.branch # Main
  /\ HeadCommit(Main).by = 0

\* C2: an attempt whose PutFile was not answered ok has ended, has made no
\* CreatePullRequest call, and its result is an error.
C2_PutRejectedNoPull ==
  \A x \in AllAttempts :
    LET a == AttemptAt(x) IN
      (\E j \in CallsOf(a, "PutFile") : ~IsOk(a.calls[j].status)) =>
        /\ a.pc = "done"
        /\ ~Called(a, "CreatePullRequest")
        /\ submitResult[x[1]][x[2]].pre = "Error: "
C2_Witness ==
  \E x \in AllAttempts :
    \E j \in CallsOf(AttemptAt(x), "PutFile") : AttemptAt(x).calls[j].status = 409

\* C3: a robot attempt that read a dataset holding the id of the entry it
\* submits has ended with 'Robot id <id> already exists.' and has made neither
\* a PutFile nor a CreatePullRequest call.
HoldsId(file, id) ==
  file.parses /\ \E j \in DOMAIN file.arr :
                   Has(file.arr[j], "id") /\ Get(file.arr[j], "id") = id
C3_RobotDuplicate ==
  \A x \in AllAttempts :
    LET a == AttemptAt(x) IN
      (x[2] = "robot" /\ a.newObj # <<>> /\ HoldsId(a.existing, Get(a.newObj, "id"))) =>
        /\ a.pc = "done"
        /\ submitResult[x[1]]["robot"] =
             [pre |-> "Robot id ", arg |-> Get(a.newObj, "id"), post |-> " already exists."]
        /\ ~Called(a, "PutFile") /\ ~Called(a, "CreatePullRequest")
C3_Witness ==
  \E x \in AllAttempts :
    /\ x[2] = "robot" /\ AttemptAt(x).newObj # <<>>
    /\ HoldsId(AttemptAt(x).existing, Get(AttemptAt(x).newObj, "id"))
    /\ AttemptAt(x).branchName \in DOMAIN refs

\* the text of a UTF-8 byte sequence
RECURSIVE Utf8Decode(_)
Utf8Decode(b) ==
  IF b = <<>> THEN <<>>
  ELSE IF Len(b) >= 2 /\
          \E c \in Range(UpperChars) \cup Range(LowerChars) \cup WideChars :
             Utf8Char(c) = SubSeq(b, 1, 2)
       THEN <<CHOOSE c \in Range(UpperChars) \cup Range(LowerChars) \cup WideChars :
                Utf8Char(c) = SubSeq(b, 1, 2)>> \o Utf8Decode(SubSeq(b, 3, Len(b)))
       ELSE <<Head(b)>> \o Utf8Decode(Tail(b))

\* C4: a company attempt that read a dataset file holding an entry whose name
\* equals the submitted name ignoring letter case has ended with
\* 'Company <name> already exists.' and has made neither a PutFile nor a
\* CreatePullRequest call.
HoldsName(file, name) ==
  file.parses /\ \E j \in DOMAIN file.arr :
     /\ Has(file.arr[j], "name")
     /\ toLowerCase(Utf8Decode(Get(file.arr[j], "name"))) = toLowerCase(name)
C4_CompanyDuplicate ==
  \A x \in AllAttempts :
    LET a == AttemptAt(x) IN
      (x[2] = "company" /\ a.newObj # <<>> /\ HoldsName(a.existing, Get(a.newObj, "name"))) =>
        /\ a.pc = "done"
        /\ submitResult[x[1]]["company"] =
             [pre |-> "Company ", arg |-> Get(a.newObj, "name"), post |-> " already exists."]
        /\ ~Called(a, "PutFile") /\ ~Called(a, "CreatePullRequest")

\* C5: after a CreateRef answered 422 the next call of the attempt is the
\* GetFile of the default branch (no read of the existing branch comes
\* between); after any other non-ok answer the attempt has ended with
\* 'Error: Failed to create branch'.
C5_BranchExistsContinues ==
  \A x \in AllAttempts :
    LET a == AttemptAt(x) IN
      \A j \in CallsOf(a, "CreateRef") :
        /\ a.calls[j].status = StatusExists =>
             IF Len(a.calls) = j
             THEN a.pc = "getFile" /\ a.req.branch = Main
             ELSE a.calls[j + 1].op = "GetFile" /\ a.calls[j + 1].branch = Main
        /\ (a.calls[j].status \notin {0, StatusExists} /\ ~IsOk(a.calls[j].status)) =>
             /\ a.pc = "done" /\ Len(a.calls) = j
             /\ submitResult[x[1]][x[2]] = ErrorResult("Failed to create branch")
C5_Witness ==
  \E x \in AllAttempts :
    LET a == AttemptAt(x) IN
      /\ a.pc = "getFile"
      /\ \E j \in CallsOf(a, "CreateRef") : a.calls[j].status = StatusExists
      /\ refs[a.branchName] # a.mainSha

\* C6: for each form at most one attempt is outstanding, and the in-flight
\* flag is true exactly while one is.
OutstandingCount(s, k) ==
  Cardinality({i \in DOMAIN attempts[s][k] : Outstanding(attempts[s][k][i])})
C6_InFlightGuard ==
  \A s \in Sessions, k \in Kinds :
    /\ OutstandingCount(s, k) <= 1
    /\ submitting[s][k] <=> OutstandingCount(s, k) = 1
    /\ submitting[s][k] => ~ENABLED ClickSubmit(s, k)
C6_Witness ==
  \E s \in Sessions, k \in Kinds :
    /\ submitting[s][k] /\ githubToken[s] # <<>> /\ ~anyIssues(s, k)
    /\ generatedJson[s][k] # NoText /\ started[s] < MaxAttempts

\* C8: the branch name an attempt passes to CreateRef, PutFile and
\* CreatePullRequest is the one computed from the natural key of the entry
\* being submitted, and is at most 60 characters long.
KeyBranch(k, obj) ==
  IF k = "robot" THEN RobotBranchTemplate(Get(obj, "id"))
  ELSE CompanyBranchTemplate(Get(obj, "name"))
C8_BranchFromKey ==
  \A x \in AllAttempts :
    LET a == AttemptAt(x)
        obj == IF a.newObj # <<>> THEN a.newObj
               ELSE JSONParse(generatedJson[x[1]][x[2]])
    IN a.pc \in {"createRef", "putFile", "createPR"} =>
         a.req.branch = KeyBranch(x[2], obj) /\ Len(a.req.branch) <= BranchMaxLen

\* C9: when the PR helper of a form was built for the entry an attempt
\* submits, the branch and the commit message of the helper are those the
\* attempt sends with PutFile.
KeyCommit(k, obj) ==
  IF k = "robot" THEN RobotCommitTemplate(Get(obj, "name"), Get(obj, "id"))
  ELSE CompanyCommitTemplate(Get(obj, "name"))
C9_HelperMatchesSubmission ==
  \A x \in AllAttempts :
    LET a == AttemptAt(x)
        h == prHelper[x[1]][x[2]]
    IN (a.pc = "putFile" /\ h # NoHelper /\ h.commitMsg = KeyCommit(x[2], a.newObj)) =>
         h.branch = a.req.branch /\ h.commitMsg = a.req.message


\* C10: a generated entry never holds an optional array key whose value is
\* the empty array; in particular a form without a populated optional array
\* yields an entry without the keys urls, photos, tags, usages, regulatory,
\* robots.
ArrayKeys == {"urls", "photos", "tags", "usages", "regulatory", "robots"}
C10_NoEmptyArrays ==
  \A s \in Sessions, k \in Kinds :
    generatedJson[s][k] # NoText =>
      LET obj == JSONParse(generatedJson[s][k]) IN
        \A j \in DOMAIN obj : obj[j][1] \in ArrayKeys => Len(obj[j][2]) > 0


\* C7: two sessions can both end in success for the same robot id, absent
\* from the default branch's dataset (C7_Witness is such a state); whenever
\* they do, each attempt has passed its duplicate-key check, the two staging
\* branches differ and each attempt has opened its own pull request.
LastAttempt(s, k) == attempts[s][k][Len(attempts[s][k])]
Succeeded(s, k) ==
  /\ attempts[s][k] # <<>>
  /\ LastAttempt(s, k).pc = "done"
  /\ submitResult[s][k].pre = "Success! PR: "
BothSucceeded ==
  /\ Succeeded(1, "robot") /\ Succeeded(2, "robot")
  /\ Get(LastAttempt(1, "robot").newObj, "id") = Get(LastAttempt(2, "robot").newObj, "id")
  /\ ~HoldsId(HeadCommit(Main).tree.robot, Get(LastAttempt(1, "robot").newObj, "id"))
OpenedPull(s, k) ==
  \E n \in DOMAIN pulls :
    /\ pulls[n].by = s /\ pulls[n].head = LastAttempt(s, k).branchName
    /\ pulls[n].base = Main
    /\ submitResult[s][k].arg = PullUrl(n)
C7_RaceBothOpenPulls ==
  BothSucceeded =>
    /\ \A s \in Sessions :
         /\ ~HoldsId(LastAttempt(s, "robot").existing, Get(LastAttempt(s, "robot").newObj, "id"))
         /\ Called(LastAttempt(s, "robot"), "PutFile")
         /\ OpenedPull(s, "robot")
    /\ LastAttempt(1, "robot").branchName # LastAttempt(2, "robot").branchName
    /\ Len(pulls) >= 2
C7_Witness ==
  /\ BothSucceeded
  /\ submitResult[1]["robot"].arg # submitResult[2]["robot"].arg

\* C11: a generate (generateCompany) step leaves a state on which running it
\* again gives the same generated JSON and the same schema-error list: the
\* second of two runs in a row changes neither.
SecondRun(s, k) ==
  LET obj == IF k = "robot" THEN BuildRobot(form[s]) ELSE BuildCompany(companyForm[s])
  IN [json |-> JSONStringify(obj), errors |-> validateObject(s, k, obj)]
FirstRun(s, k) == [json |-> generatedJson[s][k], errors |-> schemaErrors[s][k]]
C11_GenerateIdempotent ==
  [][/\ generate(1) => SecondRun(1, "robot")' = FirstRun(1, "robot")'
     /\ generateCompany(1) => SecondRun(1, "company")' = FirstRun(1, "company")']_vars
C11_Witness ==
  /\ generatedJson[1]["robot"] # NoText
  /\ SecondRun(1, "robot") = FirstRun(1, "robot")
  /\ generatedJson[1]["company"] # NoText
  /\ SecondRun(1, "company") = FirstRun(1, "company")

\* C12: the company form holding only the name 'Acme Robotics' and the
\* country 'US' generates the entry with the keys name and country, in that
\* order, and the branch name 'add-company-acme-robotics'; an attempt against
\* the empty company dataset whose calls were all answered ok has made the
\* five calls and ended in success, with a pull request from that branch to
\* the default branch whose body is 'Add new company entry via web form.'.
AcmeBranch ==
  <<"a", "d", "d", "-", "c", "o", "m", "p", "a", "n", "y", "-",
    "a", "c", "m", "e", "-", "r", "o", "b", "o", "t", "i", "c", "s">>
AcmeEntry == <<<<"name", AcmeRobotics>>, <<"country", US>>>>
AllCallsOk(a) == \A j \in DOMAIN a.calls : IsOk(a.calls[j].status)
AcmePull(n) ==
  /\ pulls[n].head = AcmeBranch /\ pulls[n].base = Main
  /\ pulls[n].body = "Add new company entry via web form."
  /\ submitResult[1]["company"] = SuccessResult(PullUrl(n))
C12_AcmeScenario ==
  /\ generatedJson[1]["company"] # NoText =>
       /\ JSONParse(generatedJson[1]["company"]) = AcmeEntry
       /\ branchInput[1]["company"] = AcmeBranch
  /\ \A i \in DOMAIN attempts[1]["company"] :
       LET a == attempts[1]["company"][i] IN
         (a.pc = "done" /\ AllCallsOk(a)) =>
           /\ Len(a.calls) = 5
           /\ a.newObj = AcmeEntry /\ a.existing = File(<<>>)
           /\ \E n \in DOMAIN pulls : AcmePull(n)
C12_Witness ==
  /\ companyForm[1] = [EmptyCompanyForm EXCEPT !.name = AcmeRobotics, !.country = US]
  /\ \E i \in DOMAIN attempts[1]["company"] :
       attempts[1]["company"][i].pc = "done" /\ AllCallsOk(attempts[1]["company"][i])
  /\ \E n \in DOMAIN pulls : AcmePull(n)

\* C13: for a non-empty id outside ^[A-Za-z0-9_.&]+$ the issue list holds the
\* pattern message and not 'ID is required.'; for an empty id it holds
\* 'ID is required.' and not the pattern message; for a matching id it holds
\* neither; in the first two cases generate is disabled.
IdAlphabet ==
  {"A", "B", "C", "D", "E", "F", "G", "H", "I", "J", "K", "L", "M", "N", "O", "P", "Q",
   "R", "S", "T", "U", "V", "W", "X", "Y", "Z", "a", "b", "c", "d", "e", "f", "g", "h",
   "i", "j", "k", "l", "m", "n", "o", "p", "q", "r", "s", "t", "u", "v", "w", "x", "y",
   "z", "0", "1", "2", "3", "4", "5", "6", "7", "8", "9", "_", ".", "&"}
MatchesIdRule(id) == Len(id) > 0 /\ \A i \in DOMAIN id : id[i] \in IdAlphabet
IssueTexts(issues) == {issues[i].msg : i \in DOMAIN issues}
C13_IdRule ==
  LET id == form[1].id
      msgs == IssueTexts(validationIssues(form[1]))
      pattern == "ID must match ^[A-Za-z0-9_.&]+$."
      required == "ID is required."
  IN /\ (id # <<>> /\ ~MatchesIdRule(id)) =>
          pattern \in msgs /\ required \notin msgs /\ ~ENABLED generate(1)
     /\ id = <<>> => required \in msgs /\ pattern \notin msgs /\ ~ENABLED generate(1)
     /\ MatchesIdRule(id) => pattern \notin msgs /\ required \notin msgs
C13_Witness ==
  /\ form[1].id = BadId /\ form[1].name = Ion
  /\ IssueTexts(validationIssues(form[1])) = {"ID must match ^[A-Za-z0-9_.&]+$."}

\* C14: while the issue list of a form is non-empty its generate action is
\* disabled, and no step changes the form's generated JSON, schema-error
\* list, default branch name or default commit message.
Generated(s, k) ==
  <<generatedJson[s][k], schemaErrors[s][k], branchInput[s][k], commitMsgInput[s][k]>>
C14_GenerationGated ==
  /\ [](/\ Len(validationIssues(form[1])) > 0 => ~ENABLED generate(1)
        /\ Len(companyValidationIssues(companyForm[1])) > 0 => ~ENABLED generateCompany(1))
  /\ [][\A k \in Kinds :
          Len(validationIssuesOf(1, k)) > 0 => Generated(1, k)' = Generated(1, k)]_vars
C14_Witness ==
  /\ Len(validationIssues(form[1])) > 0
  /\ canGenerate(form[1])
  /\ generatedJson[1]["robot"] # NoText

\* C15: the calls of an attempt are a prefix of GetRef, CreateRef, GetFile,
\* PutFile, CreatePullRequest, each made once; every call before the last one
\* succeeded (a CreateRef answered 422 counts as success); the call in flight
\* is the next of the list and follows only successful calls; an attempt with
\* a failed call has ended.
StepOrder == <<"GetRef", "CreateRef", "GetFile", "PutFile", "CreatePullRequest">>
StepPc == <<"getRef", "createRef", "getFile", "putFile", "createPR">>
StepOk(call) == IsOk(call.status) \/ (call.op = "CreateRef" /\ call.status = StatusExists)
C15_StepOrder ==
  \A x \in AllAttempts :
    LET a == AttemptAt(x)
        n == Len(a.calls)
    IN /\ n <= Len(StepOrder)
       /\ \A j \in 1..n : a.calls[j].op = StepOrder[j]
       /\ \A j \in 1..(n - 1) : StepOk(a.calls[j])
       /\ a.pc # "done" =>
            /\ n < Len(StepOrder) /\ a.pc = StepPc[n + 1]
            /\ \A j \in 1..n : StepOk(a.calls[j])
C15_Witness ==
  \E x \in AllAttempts :
    LET a == AttemptAt(x) IN
      /\ a.pc = "done" /\ Len(a.calls) = 3
      /\ ~StepOk(a.calls[3]) /\ a.calls[2].status = StatusExists

\* C16: two attempts that failed at different protocol steps never show the
\* same result text.
Failed(s, k) ==
  /\ attempts[s][k] # <<>>
  /\ LastAttempt(s, k).pc = "done"
  /\ submitResult[s][k].pre = "Error: "
FailedAt(a) ==
  IF StepOk(a.calls[Len(a.calls)]) THEN "local" ELSE a.calls[Len(a.calls)].op
C16_StepIdentified ==
  \A s \in Sessions, t \in Sessions :
    (/\ Failed(s, "robot") /\ Failed(t, "robot")
     /\ FailedAt(LastAttempt(s, "robot")) # FailedAt(LastAttempt(t, "robot"))) =>
      submitResult[s]["robot"] # submitResult[t]["robot"]

\* C17: the PutFile of an attempt carries the SHA of the file the attempt read
\* at step 3 and targets the attempt's staging branch; a session's write moves
\* a branch only when the dataset file at the head of that branch is the file
\* the attempt read, and then puts the attempt's content there; an attempt
\* whose PutFile was answered 409 ended with 'Failed to update <file>'.
WriteOf(s, b) ==
  \E k \in Kinds : \E i \in DOMAIN attempts[s][k] :
    LET a == attempts[s][k][i] IN
      /\ a.pc = "putFile" /\ a.req.branch = b
      /\ HeadCommit(b).tree[k] = a.existing
      /\ commits'[refs'[b]].tree = [HeadCommit(b).tree EXCEPT ![k] = a.req.content]
C17_ConditionalWrite ==
  /\ [](\A x \in AllAttempts :
         LET a == AttemptAt(x) IN
           /\ a.pc = "putFile" =>
                a.req.fileSha = BlobSha(a.existing) /\ a.req.branch = a.branchName
           /\ (\E j \in CallsOf(a, "PutFile") : a.calls[j].status = 409) =>
                /\ a.pc = "done"
                /\ submitResult[x[1]][x[2]] = ErrorResult(ErrorText("putFile", x[2])))
  /\ [][\A b \in DOMAIN refs :
          (refs'[b] # refs[b] /\ commits'[refs'[b]].by # 0) =>
            WriteOf(commits'[refs'[b]].by, b)]_vars
C17_Witness ==
  \E x \in AllAttempts :
    LET a == AttemptAt(x) IN
      /\ a.pc = "done" /\ a.calls[Len(a.calls)].op = "PutFile"
      /\ a.calls[Len(a.calls)].status = 409
      /\ HeadCommit(a.branchName).tree[x[2]] # a.existing
      /\ HeadCommit(a.branchName).by # 0

\* C18: a retry that found its staging branch already there, left unwritten
\* by an earlier attempt, whose key is absent from the dataset it read and
\* none of whose calls was refused or rejected on the way, ends in success
\* with a pull request from that branch.
SessionCommits == {i \in DOMAIN commits : commits[i].by # 0}
OwnWrites(a) == {j \in CallsOf(a, "PutFile") : IsOk(a.calls[j].status)}
KeyAbsent(k, a) ==
  /\ a.newObj # <<>>
  /\ IF k = "robot" THEN ~HoldsId(a.existing, Get(a.newObj, "id"))
     ELSE ~HoldsName(a.existing, Get(a.newObj, "name"))
C18_OrphanReusable ==
  \A x \in AllAttempts :
    LET a == AttemptAt(x) IN
      (/\ a.pc = "done"
       /\ \E j \in CallsOf(a, "CreateRef") : a.calls[j].status = StatusExists
       /\ \A j \in DOMAIN a.calls : a.calls[j].status \notin {0, RefusedStatus}
       /\ KeyAbsent(x[2], a)
       /\ Cardinality(SessionCommits) = Cardinality(OwnWrites(a))) =>
        /\ submitResult[x[1]][x[2]].pre = "Success! PR: "
        /\ \E n \in DOMAIN pulls : pulls[n].head = a.branchName

\* C19: the array an attempt sends with PutFile is the array it read at step
\* 3 with one element added at the end, the new entry; the elements read
\* keep their values and their positions.
C19_AppendOnly ==
  \A x \in AllAttempts :
    LET a == AttemptAt(x)
        n == Len(a.existing.arr)
    IN a.pc = "putFile" =>
         /\ a.req.content.parses
         /\ Len(a.req.content.arr) = n + 1
         /\ \A j \in 1..n : a.req.content.arr[j] = a.existing.arr[j]
         /\ a.req.content.arr[n + 1] = a.newObj
C19_Witness ==
  \E x \in AllAttempts :
    LET a == AttemptAt(x) IN
      /\ a.pc = "putFile" /\ Len(a.existing.arr) = 2
      /\ a.req.content.arr[3] = a.newObj
      /\ a.existing.arr[1] # a.existing.arr[2]

\* C20: an attempt that ended with 'Success! PR: <url>' has had its CreateRef
\* answered ok or 422 and its branch exists; it made exactly one PutFile,
\* answered ok, on that branch, which put its content there; it made exactly
\* one CreatePullRequest, answered ok, from that branch to the default
\* branch; the URL shown is the one of that pull request.
OnlyCall(a, op) ==
  /\ Cardinality(CallsOf(a, op)) = 1
  /\ \A j \in CallsOf(a, op) : IsOk(a.calls[j].status) /\ a.calls[j].branch = a.branchName
C20_SuccessEffects ==
  \A x \in AllAttempts :
    LET a == AttemptAt(x)
        s == x[1]
        k == x[2]
    IN (a.pc = "done" /\ submitResult[s][k].pre = "Success! PR: ") =>
         /\ \E j \in CallsOf(a, "CreateRef") : StepOk(a.calls[j])
         /\ a.branchName \in DOMAIN refs
         /\ OnlyCall(a, "PutFile")
         /\ \E c \in DOMAIN commits :
              commits[c].by = s /\ commits[c].tree[k] = File(Append(a.existing.arr, a.newObj))
         /\ OnlyCall(a, "CreatePullRequest")
         /\ \E n \in DOMAIN pulls :
              /\ pulls[n].head = a.branchName /\ pulls[n].base = Main /\ pulls[n].by = s
              /\ submitResult[s][k].arg = PullUrl(n)
C20_Witness ==
  \E x \in AllAttempts :
    /\ AttemptAt(x).pc = "done"
    /\ submitResult[x[1]][x[2]].pre = "Success! PR: "
    /\ \E j \in CallsOf(AttemptAt(x), "CreateRef") : AttemptAt(x).calls[j].status = StatusExists

\* the messages of the local checks that fail in the current state
GenerateFirst(k) ==
  Message(IF k = "robot" THEN "Generate JSON first." ELSE "Generate company JSON first.")
PreconditionMessages(s, k) ==
  (IF githubToken[s] = <<>> THEN {Message("GitHub token required.")} ELSE {})
  \cup (IF generatedJson[s][k] = NoText THEN {GenerateFirst(k)} ELSE {})
  \cup (IF Len(validationIssuesOf(s, k)) > 0 \/ Len(schemaErrors[s][k]) > 0
        THEN {Message("Fix validation/schema issues first.")} ELSE {})

\* C21: a call of a submit handler made while the credential is empty, or no
\* JSON has been generated, or the local issue list or the schema-error list of
\* that form is non-empty, starts no attempt (so sends no remote call), leaves
\* the in-flight flag as it was, and ends with the message of a check that
\* fails; the remote store is untouched.
C21_LocalChecksFirst ==
  [][\A s \in Sessions, k \in Kinds :
       (submitToGitHub(s, k) /\ PreconditionMessages(s, k) # {}) =>
         /\ attempts' = attempts
         /\ submitting' = submitting
         /\ submitResult'[s][k] \in PreconditionMessages(s, k)
         /\ UNCHANGED remoteVars]_vars

\* the robot handler was stopped by a schema error and the company handler by
\* the missing JSON, with the credential typed and no attempt started
C21_Witness ==
  /\ githubToken[1] # <<>>
  /\ Len(schemaErrors[1]["robot"]) > 0
  /\ generatedJson[1]["robot"] # NoText
  /\ submitResult[1]["robot"] = Message("Fix validation/schema issues first.")
  /\ submitResult[1]["company"] = GenerateFirst("company")
  /\ attempts[1] = PerKind(<<>>)[1]
  /\ submitting[1] = PerKind(FALSE)[1]

\* C22: every remote call of an attempt (GetRef, CreateRef, GetFile, PutFile,
\* CreatePullRequest), sent or answered, carries the bearer credential of the
\* session.
C22_EveryCallAuthenticated ==
  \A x \in AllAttempts :
    /\ \A j \in DOMAIN AttemptAt(x).calls : AttemptAt(x).calls[j].auth = githubToken[x[1]]
    /\ Outstanding(AttemptAt(x)) => AttemptAt(x).req.auth = githubToken[x[1]]

\* the fetch (and compilation) of the schema of kind k is over in session s
SchemaLoaded(s, k) ==
  IF k = "robot" THEN mountPc[s] # "robotSchema" ELSE mountPc[s] = "done"
\* the entry the builder makes of the current form
Built(s, k) == IF k = "robot" THEN BuildRobot(form[s]) ELSE BuildCompany(companyForm[s])
GenerateOf(s, k) == IF k = "robot" THEN generate(s) ELSE generateCompany(s)
\* obj does not conform to the schema document doc
ViolatesSchema(doc, k, obj) ==
  \/ doc = "compiled" /\ Len(SchemaViolations(k, obj)) > 0
  \/ doc = "strict" /\ Len(StrictViolations(k, obj)) > 0

\* C23: a validator that is absent once its schema fetch is over stays absent;
\* a generate run with the validator absent leaves the schema-error list
\* empty, and with a validator present leaves it non-empty exactly when the
\* built entry violates the schema; a non-empty list disables the submit
\* button but a form free of local issues can always be generated.
C23_FailOpenSchema ==
  /\ [](\A s \in Sessions, k \in Kinds :
          /\ Len(schemaErrors[s][k]) > 0 => ~SubmitButtonEnabled(s, k)
          /\ Len(validationIssuesOf(s, k)) = 0 /\ (k = "robot" => canGenerate(form[s]))
               => ENABLED GenerateOf(s, k))
  /\ [][\A s \in Sessions, k \in Kinds :
          /\ (validator[s][k] = "none" /\ SchemaLoaded(s, k)) => validator'[s][k] = "none"
          /\ GenerateOf(s, k) =>
               IF validator[s][k] = "none" THEN schemaErrors'[s][k] = <<>>
               ELSE (Len(schemaErrors'[s][k]) > 0
                       <=> ViolatesSchema(validator[s][k], k, Built(s, k)))]_vars

\* the robot schema failed to load and the company schema compiled: the robot
\* was generated with no schema error although it lacks what the strict
\* document requires, the company was generated with schema errors, and
\* both can be generated again
C23_Witness ==
  /\ mountPc[1] = "done"
  /\ validator[1]["robot"] = "none" /\ validator[1]["company"] = "strict"
  /\ generatedJson[1]["robot"] = JSONStringify(Built(1, "robot"))
  /\ ViolatesSchema("strict", "robot", Built(1, "robot"))
  /\ schemaErrors[1]["robot"] = <<>>
  /\ generatedJson[1]["company"] = JSONStringify(Built(1, "company"))
  /\ Len(schemaErrors[1]["company"]) > 0
  /\ ENABLED generate(1) /\ ENABLED generateCompany(1)

RobotKeyOrder == <<"name", "id", "introduction_year", "description", "urls", "photos",
                   "tags", "usages", "regulatory">>
CompanyKeyOrder == <<"name", "country", "description", "employee_count", "founded_year",
                     "company_type", "linkedin_url", "opencorporates_url", "urls", "robots">>
KeyOrder(k) == IF k = "robot" THEN RobotKeyOrder ELSE CompanyKeyOrder
PosIn(order, key) == CHOOSE p \in DOMAIN order : order[p] = key
InOrder(keys, order) ==
  /\ \A i \in DOMAIN keys : keys[i] \in Range(order)
  /\ \A i, j \in DOMAIN keys : i < j => PosIn(order, keys[i]) < PosIn(order, keys[j])
OptionalKeys == {"introduction_year", "description", "employee_count", "founded_year",
                 "company_type", "linkedin_url", "opencorporates_url"}
OptionalRowKeys == {"year", "region", "type", "site"}
RequiredRowKey(key) ==
  CASE key = "urls" -> "url" [] key = "photos" -> "url" [] key = "regulatory" -> "body"
\* an empty, zero or absent value
Blank(v) == v = <<>> \/ v = <<0>>
Minimal(obj) ==
  /\ \A key \in OptionalKeys : Has(obj, key) => ~Blank(Get(obj, key))
  /\ \A key \in {"urls", "photos", "regulatory"} :
       Has(obj, key) =>
         \A i \in DOMAIN Get(obj, key) :
           LET row == Get(obj, key)[i] IN
             /\ ~Blank(row[RequiredRowKey(key)])
             /\ \A f \in DOMAIN row \cap OptionalRowKeys : ~Blank(row[f])

\* C24: every generated entry holds an optional field, at top level or inside
\* a sub-row, only with a non-empty and non-zero value, holds only sub-rows
\* that have their url (urls, photos) or body (regulatory), and lists its keys
\* in the order of assignment.
C24_BuilderMinimal ==
  \A s \in Sessions, k \in Kinds :
    generatedJson[s][k] # NoText =>
      /\ Minimal(JSONParse(generatedJson[s][k]))
      /\ InOrder(Keys(JSONParse(generatedJson[s][k])), KeyOrder(k))

\* the number a text of decimal digits writes
DigitValue(c) == CHOOSE n \in 0..9 : <<"0", "1", "2", "3", "4", "5", "6", "7", "8", "9">>[n + 1] = c
RECURSIVE TextToNat(_)
TextToNat(t) == IF t = <<>> THEN 0 ELSE 10 * TextToNat(SubSeq(t, 1, Len(t) - 1)) + DigitValue(t[Len(t)])
OutsideYears(n) == n < 1900 \/ n > 2100
Reported(issues, msg, idx) == \E j \in DOMAIN issues : issues[j] = [msg |-> msg, idx |-> idx]

\* C25: the local validator reports a year field (introduction_year, the year
\* of a regulatory record, founded_year) exactly when it is set and outside
\* 1900..2100, and employee_count exactly when it is set and below 1.
C25_NumericRanges ==
  \A s \in Sessions :
    LET f == form[s]
        c == companyForm[s]
    IN /\ Reported(validationIssues(f), "Introduction year must be between 1900 and 2100.", 0)
            <=> (f.introduction_year # Null /\ OutsideYears(f.introduction_year[1]))
       /\ \A i \in DOMAIN f.regulatory :
            Reported(validationIssues(f), "Regulatory entry #idx year out of range.", i)
              <=> (f.regulatory[i].year # Null /\ OutsideYears(f.regulatory[i].year[1]))
       /\ Reported(companyValidationIssues(c), "Employee count must be >=1.", 0)
            <=> (c.employee_count # Null /\ c.employee_count[1] < 1)
       /\ Reported(companyValidationIssues(c), "Founded year must be 19xx or 20xx.", 0)
            <=> (c.founded_year # <<>> /\ OutsideYears(TextToNat(c.founded_year)))

\* the attempts of kind k of any session that have computed their branch name
Staged(k) == {x \in AllAttempts : x[2] = k /\ Called(AttemptAt(x), "GetRef")
                                  /\ AttemptAt(x).branchName # <<>>}

\* C26: an outstanding attempt of one kind always has a step to take and never
\* disables the submit button of the other kind, and a robot attempt and a
\* company attempt never share a staging branch or a dataset file.
C26_KindsIndependent ==
  /\ \A s \in Sessions, k \in Kinds :
       /\ (\E i \in DOMAIN attempts[s][k] : Outstanding(attempts[s][k][i]))
            => ENABLED ChainStep(s, k)
       /\ SubmitButtonEnabled(s, k)
            <=> /\ generatedJson[s][k] # NoText /\ githubToken[s] # <<>>
                /\ ~anyIssues(s, k) /\ ~submitting[s][k]
  /\ \A x \in Staged("robot"), y \in Staged("company") :
       /\ AttemptAt(x).branchName # AttemptAt(y).branchName
       /\ DatasetPath(x[2]) # DatasetPath(y[2])

\* C27: an edit of a form changes neither the generated JSON nor the
\* schema-error list, and the entry an attempt checks for duplicates and
\* appends is the parse of the generated JSON as it is when the file is read,
\* whatever the form holds by then.
C27_SubmitsGenerated ==
  [][/\ (form' # form \/ companyForm' # companyForm)
          => UNCHANGED <<generatedJson, schemaErrors>>
     /\ started' = started =>
          \A x \in AllAttempts :
            LET s == x[1]
                k == x[2]
                b == attempts'[s][k][x[3]]
            IN (AttemptAt(x).pc = "getFile" /\ b.newObj # <<>>) =>
                 /\ b.newObj = JSONParse(generatedJson[s][k])
                 /\ b.pc = "putFile" =>
                      b.req.content = File(Append(HeadCommit(Main).tree[k].arr,
                                                  JSONParse(generatedJson[s][k])))]_vars

\* a write was accepted whose new entry is the generated one and is not what
\* the builder makes of the form, which has no local issue
C27_Witness ==
  \E x \in AllAttempts :
    LET a == AttemptAt(x) IN
      /\ \E j \in CallsOf(a, "PutFile") : a.calls[j].status = 200
      /\ a.newObj = JSONParse(generatedJson[x[1]][x[2]])
      /\ Len(validationIssuesOf(x[1], x[2])) = 0
      /\ a.newObj # Built(x[1], x[2])
      /\ a.branchName \in DOMAIN refs
      /\ LET arr == HeadCommit(a.branchName).tree[x[2]].arr
         IN Len(arr) > 0 /\ arr[Len(arr)] = a.newObj

\* branch b holds a write of the pipeline for which no pull request exists:
\* a PutFile on b was accepted and the CreatePullRequest after it was not
WrittenNoPull(b) ==
  /\ b \in DOMAIN refs /\ b # Main
  /\ HeadCommit(b).by # 0
  /\ \A n \in DOMAIN pulls : pulls[n].head # b
\* an attempt on b that is not the one that wrote b
RetryOn(a, b) ==
  /\ a.branchName = b
  /\ \A j \in CallsOf(a, "PutFile") : a.calls[j].status # 200
LastOf(arr) == arr[Len(arr)]
\* the file a read from the default branch is the one the write on b started
\* from, and a submits the entry that write added
SameRetry(a, k, b) ==
  /\ a.newObj # <<>>
  /\ HeadCommit(b).tree[k].arr = PushEntry(a.existing.arr, a.newObj)
Answered(call) == call.status \notin {0, RefusedStatus}

\* C28: while a branch holds an accepted write without a pull request, an
\* attempt on that branch that has not written yet gets 'already exists' from
\* an answered CreateRef and goes on, passes the duplicate-key check if the
\* default branch still holds the file the write started from and the entry
\* is the same, and ends at PutFile: an answered PutFile is rejected with 409
\* and 'Failed to update', nothing is written, and CreatePullRequest is never
\* sent.
C28_RetryStuck ==
  [][\A x \in AllAttempts :
       LET s == x[1]
           k == x[2]
           a == AttemptAt(x)
           b == a.branchName
           a2 == attempts'[s][k][x[3]]
           last == a2.calls[Len(a2.calls)]
       IN (started' = started /\ a2 # a /\ WrittenNoPull(b)) =>
            /\ a.pc = "createRef" /\ Answered(last)
                 => last.status = StatusExists /\ a2.pc = "getFile"
            /\ (/\ a.pc = "getFile" /\ last.status = 200
                /\ HeadCommit(b).tree[k].arr
                     = PushEntry(HeadCommit(Main).tree[k].arr, NewObjOf(s, k)))
                 => a2.pc = "putFile"
            /\ a.pc = "putFile" =>
                 /\ a2.pc = "done" /\ ~Called(a2, "CreatePullRequest")
                 /\ UNCHANGED remoteVars
                 /\ Answered(last) =>
                      /\ last.status = 409
                      /\ submitResult'[s][k] = ErrorResult(ErrorText("putFile", k))]_vars

\* a retry of the same entry on a written branch, with every call answered,
\* was rejected at the write
C28_Witness ==
  \E x \in AllAttempts :
    LET a == AttemptAt(x)
        b == a.branchName
    IN /\ WrittenNoPull(b) /\ RetryOn(a, b) /\ SameRetry(a, x[2], b)
       /\ a.existing = HeadCommit(Main).tree[x[2]]
       /\ \E j \in CallsOf(a, "CreateRef") : a.calls[j].status = StatusExists
       /\ \E j \in CallsOf(a, "PutFile") : a.calls[j].status = 409
       /\ submitResult[x[1]][x[2]] = ErrorResult(ErrorText("putFile", x[2]))
       /\ pulls = <<>>

\* attempt a of kind k created its branch at the head it read at step 1 and
\* then read, at step 3, a dataset file that is not the one of that head
MovedUnder(a, k) ==
  /\ \E j \in CallsOf(a, "CreateRef") : a.calls[j].status = 201
  /\ \E j \in CallsOf(a, "GetFile") : a.calls[j].status = 200
  /\ a.existing # commits[a.mainSha].tree[k]

\* C29: an attempt that created its branch from the head read at step 1 and
\* read at step 3 a dataset file changed since then never sends
\* CreatePullRequest, and its write, once answered, has been rejected with
\* 409 and has ended the attempt with 'Failed to update <file>'; its branch
\* still holds the file of the step-1 head.
C29_MainMoved ==
  \A x \in AllAttempts :
    LET a == AttemptAt(x)
        k == x[2]
    IN MovedUnder(a, k) =>
         /\ a.pc # "createPR" /\ ~Called(a, "CreatePullRequest")
         /\ \A n \in DOMAIN pulls : pulls[n].head # a.branchName
         /\ HeadCommit(a.branchName).tree[k] = commits[a.mainSha].tree[k]
         /\ \A j \in CallsOf(a, "PutFile") :
              Answered(a.calls[j]) =>
                /\ a.calls[j].status = 409
                /\ a.pc = "done"
                /\ submitResult[x[1]][k] = ErrorResult(ErrorText("putFile", k))

\* another writer's entry reached the default branch between the two reads
\* and the write of the attempt was rejected
C29_Witness ==
  \E x \in AllAttempts :
    LET a == AttemptAt(x) IN
      /\ MovedUnder(a, x[2])
      /\ a.existing = File(Append(commits[a.mainSha].tree[x[2]].arr, OtherRobot))
      /\ \E j \in CallsOf(a, "PutFile") : a.calls[j].status = 409
      /\ submitResult[x[1]][x[2]] = ErrorResult(ErrorText("putFile", x[2]))
      /\ pulls = <<>>

InFlight(s, k) == \E i \in DOMAIN attempts[s][k] : Outstanding(attempts[s][k][i])

====
